---- MODULE Spec2Model ----
(***************************************************************************)
(* A model of tenkExtraction.py: the extraction of the "Item" sections of  *)
(* a 10-K filing from its HTML, by table-of-contents anchors first and by  *)
(* pattern matching over the flattened text as a fallback.                 *)
(*                                                                         *)
(* Text is modelled character by character: a Python str is a TLA+ string, *)
(* an offset into it is the Python (0-based) offset, and the regular       *)
(* expressions of the source are run by a small backtracking matcher.      *)
(***************************************************************************)
EXTENDS Integers, Sequences, FiniteSets, TLC

VARIABLES
    pc,            \* the position of the program (or of the function under study)
    soup,          \* the parsed document
    toc_targets,   \* main: the anchors found, in document order
    extracted,     \* main: section key -> text
    xbrl_parser,   \* main: the fallback parser, once the fallback is taken
    result,        \* main: what is written to the output file, <<>> while nothing is
    args,          \* the arguments of the function under study
    locals,        \* its local variables
    ret            \* its return value

main_vars == <<soup, toc_targets, extracted, xbrl_parser, result>>
call_vars == <<args, locals, ret>>
vars == <<pc, soup, toc_targets, extracted, xbrl_parser, result, args, locals, ret>>

None == "<None>"

(***************************************************************************)
(* Characters and strings                                                  *)
(***************************************************************************)
Letters == "abcdefghijklmnopqrstuvwxyz"
Capitals == "ABCDEFGHIJKLMNOPQRSTUVWXYZ"
Numerals == "0123456789"

At(s, i) == SubSeq(s, i, i)
CharsOf(s) == {At(s, i) : i \in 1..Len(s)}

LowerSet == CharsOf(Letters)
UpperSet == CharsOf(Capitals)
DigitSet == CharsOf(Numerals)
\* the no-break space
NBSP == " "
\* \s of the re module, over the characters the documents of the model use
SpaceSet == {" ", "\n", "\t", NBSP}
\* \w of the re module
WordSet == LowerSet \cup UpperSet \cup DigitSet \cup {"_"}

IndexIn(s, c) == CHOOSE i \in 1..Len(s) : At(s, i) = c

\* str.lower() and str.upper(), one character
LowerChar(c) == IF c \in UpperSet THEN At(Letters, IndexIn(Capitals, c)) ELSE c
UpperChar(c) == IF c \in LowerSet THEN At(Capitals, IndexIn(Letters, c)) ELSE c

RECURSIVE Build(_, _, _)
\* F(lo) \o ... \o F(hi): a string made position by position
Build(F(_), lo, hi) ==
    IF lo > hi THEN ""
    ELSE IF lo = hi THEN F(lo)
    ELSE LET mid == (lo + hi) \div 2 IN Build(F, lo, mid) \o Build(F, mid + 1, hi)

\* str.lower()
Lower(s) == Build(LAMBDA i : LowerChar(At(s, i)), 1, Len(s))

RECURSIVE LStripFrom(_, _, _)
LStripFrom(S, s, i) ==
    IF i > Len(s) THEN i
    ELSE IF At(s, i) \in S THEN LStripFrom(S, s, i + 1) ELSE i
RECURSIVE RStripFrom(_, _, _)
RStripFrom(S, s, j) ==
    IF j < 1 THEN j
    ELSE IF At(s, j) \in S THEN RStripFrom(S, s, j - 1) ELSE j
\* s.strip(chars)
StripChars(S, s) == SubSeq(s, LStripFrom(S, s, 1), RStripFrom(S, s, Len(s)))
\* s.strip()
Strip(s) == StripChars(SpaceSet, s)

\* s.startswith(prefix)
StartsWith(s, prefix) == Len(prefix) <= Len(s) /\ SubSeq(s, 1, Len(prefix)) = prefix

\* the number of whitespace-delimited words: len(s.split())
WordCount(s) ==
    Cardinality({i \in 1..Len(s) :
        /\ At(s, i) \notin SpaceSet
        /\ (i = 1 \/ At(s, i - 1) \in SpaceSet)})

RECURSIVE StrToInt(_, _, _)
StrToInt(s, i, acc) ==
    IF i > Len(s) THEN acc
    ELSE StrToInt(s, i + 1, 10 * acc + (IndexIn(Numerals, At(s, i)) - 1))
\* int(s) of a string of decimal digits
Int10(s) == StrToInt(s, 1, 0)

(***************************************************************************)
(* Regular expressions: a pattern is a sequence of items, each a set of    *)
(* characters with a greedy repetition {lo,hi}, a word boundary \b, the    *)
(* anchors ^ and $, or a negative lookahead (?!...).  That is all the      *)
(* patterns of the source use.                                             *)
(***************************************************************************)
Unbounded == 1000000

One(S) == [t |-> "set", chars |-> S, lo |-> 1, hi |-> 1]
Opt(S) == [t |-> "set", chars |-> S, lo |-> 0, hi |-> 1]
Star(S) == [t |-> "set", chars |-> S, lo |-> 0, hi |-> Unbounded]
Plus(S) == [t |-> "set", chars |-> S, lo |-> 1, hi |-> Unbounded]
WordBoundary == [t |-> "wb"]
StartOfString == [t |-> "bos"]
EndOfString == [t |-> "eos"]
NotAhead(re) == [t |-> "nla", re |-> re]

\* a literal, case-sensitive
Lit(str) == [i \in 1..Len(str) |-> One({At(str, i)})]
\* a literal under re.IGNORECASE
LitI(str) == [i \in 1..Len(str) |-> One({LowerChar(At(str, i)), UpperChar(At(str, i))})]

RECURSIVE RunLen(_, _, _, _)
\* how many characters of S follow position i, at most hi
RunLen(S, s, i, hi) ==
    IF hi = 0 \/ i > Len(s) \/ At(s, i) \notin S THEN 0
    ELSE 1 + RunLen(S, s, i + 1, hi - 1)

IsWordAt(s, i) == i >= 1 /\ i <= Len(s) /\ At(s, i) \in WordSet
\* \b holds between position i-1 and i
AtWordBoundary(s, i) == IsWordAt(s, i - 1) # IsWordAt(s, i)
\* $ (without re.MULTILINE): at the end, or before a final newline
AtEnd(s, i) == i = Len(s) + 1 \/ (i = Len(s) /\ At(s, i) = "\n")

RECURSIVE MatchAt(_, _, _, _)
RECURSIVE TryCount(_, _, _, _, _)
\* the position after the match of re[k..] at position i of s, 0 when none;
\* greedy, with backtracking, as the re module matches
MatchAt(re, k, s, i) ==
    IF k > Len(re) THEN i
    ELSE LET e == re[k] IN
         CASE e.t = "set" -> TryCount(re, k, s, i, RunLen(e.chars, s, i, e.hi))
           [] e.t = "wb"  -> IF AtWordBoundary(s, i) THEN MatchAt(re, k + 1, s, i) ELSE 0
           [] e.t = "bos" -> IF i = 1 THEN MatchAt(re, k + 1, s, i) ELSE 0
           [] e.t = "eos" -> IF AtEnd(s, i) THEN MatchAt(re, k + 1, s, i) ELSE 0
           [] e.t = "nla" -> IF MatchAt(e.re, 1, s, i) = 0
                             THEN MatchAt(re, k + 1, s, i) ELSE 0
TryCount(re, k, s, i, n) ==
    IF n < re[k].lo THEN 0
    ELSE LET r == MatchAt(re, k + 1, s, i + n) IN
         IF r # 0 THEN r ELSE TryCount(re, k, s, i, n - 1)

NoMatch == [start |-> 0, end |-> 0, found |-> FALSE]

\* the leftmost of the matches: ends[j] is the position after the match that
\* starts at position j, 0 when there is none
LeftMost(ends) ==
    LET starts == {j \in DOMAIN ends : ends[j] # 0} IN
    IF starts = {} THEN NoMatch
    ELSE LET j == CHOOSE x \in starts : \A y \in starts : x <= y IN
         [start |-> j - 1, end |-> ends[j] - 1, found |-> TRUE]

\* re.search from position i (1-based): the leftmost match, as Python offsets
\* [start, end)
SearchFrom(re, s, i) == LeftMost([j \in i..(Len(s) + 1) |-> MatchAt(re, 1, s, j)])

\* re.search(re, s)
Search(re, s) == SearchFrom(re, s, 1)

\* re.match(re, s): a match at the start only
Match(re, s) == LeftMost([j \in {1} |-> MatchAt(re, 1, s, j)])

RECURSIVE FindIter(_, _, _)
RECURSIVE MatchesAfter(_, _, _)
\* list(re.finditer(re, s)): the successive non-overlapping matches, from
\* position i (1-based) on
FindIter(re, s, i) == MatchesAfter(re, s, SearchFrom(re, s, i))
\* the match m, when there is one, and the matches after it
MatchesAfter(re, s, m) ==
    IF ~m.found THEN <<>>
    ELSE <<m>> \o FindIter(re, s, IF m.end > m.start THEN m.end + 1 ELSE m.end + 2)

\* s[a:b] of Python, 0 <= a, b <= len(s)
Slice(s, a, b) == SubSeq(s, a + 1, b)

(***************************************************************************)
(* Labels, section keys and their order                                    *)
(***************************************************************************)
SECTION_MAPPINGS == <<
    [key |-> "item_1", variations |-> <<"business", "our business", "the business",
        "overview", "company overview", "general", "general development of business",
        "description of business">>],
    [key |-> "item_1a", variations |-> <<"risk factors", "risks", "principal risks",
        "key risks">>],
    [key |-> "item_1b", variations |-> <<"unresolved staff comments",
        "unresolved sec staff comments">>],
    [key |-> "item_1c", variations |-> <<"cybersecurity", "cyber security",
        "information security", "security risks", "cybersecurity risk management",
        "cybersecurity governance", "cybersecurity threats">>],
    [key |-> "item_2", variations |-> <<"properties", "real estate", "facilities">>],
    [key |-> "item_3", variations |-> <<"legal proceedings", "litigation",
        "legal matters">>],
    [key |-> "item_4", variations |-> <<"mine safety disclosures", "mine safety">>],
    [key |-> "item_5", variations |-> <<"market for registrant",
        "market for common equity", "stockholder matters">>],
    [key |-> "item_6", variations |-> <<"selected financial data",
        "selected consolidated financial data">>],
    [key |-> "item_7", variations |-> <<"management's discussion and analysis", "md&a",
        "mda", "management discussion and analysis", "financial condition and results",
        "management's discussion", "results of operations">>],
    [key |-> "item_7a", variations |-> <<
        "quantitative and qualitative disclosures about market risk", "market risk",
        "quantitative disclosures", "market risk disclosures">>],
    [key |-> "item_8", variations |-> <<"financial statements",
        "consolidated financial statements",
        "financial statements and supplementary data">>],
    [key |-> "item_9", variations |-> <<"changes in and disagreements",
        "accounting and financial disclosure">>],
    [key |-> "item_9a", variations |-> <<"controls and procedures",
        "disclosure controls and procedures">>],
    [key |-> "item_9b", variations |-> <<"other information">> ] >>

TARGET_SECTIONS == <<"item_1", "item_1a", "item_1b", "item_1c", "item_7", "item_7a">>

Range(f) == {f[i] : i \in DOMAIN f}
TargetSet == Range(TARGET_SECTIONS)

\* unicodedata.normalize('NFKD', s), over the characters the model uses: the
\* no-break space decomposes to a space, an ASCII character to itself
Nfkd(s) == Build(LAMBDA i : IF At(s, i) = NBSP THEN " " ELSE At(s, i), 1, Len(s))

\* re.sub(r'[^\w\s]', '', s)
RemovePunctuation(s) ==
    Build(LAMBDA i : IF At(s, i) \in WordSet \cup SpaceSet THEN At(s, i) ELSE "",
          1, Len(s))

\* re.sub(r'\s+', ' ', s): a run of whitespace becomes the one space put for
\* its first character
CollapseWhitespace(s) ==
    Build(LAMBDA i : IF At(s, i) \notin SpaceSet THEN At(s, i)
                     ELSE IF i > 1 /\ At(s, i - 1) \in SpaceSet THEN "" ELSE " ",
          1, Len(s))

\* normalize_anchor_text that strips before it removes the punctuation
normalize_strip_first(text) ==
    RemovePunctuation(Strip(CollapseWhitespace(Lower(Nfkd(text)))))

normalize_anchor_text(text) ==
    Strip(CollapseWhitespace(RemovePunctuation(Lower(Nfkd(text)))))

\* r'item\s*(\d+)([a-z]?)'
ItemPattern == Lit("item") \o <<Star(SpaceSet), Plus(DigitSet), Opt(LowerSet)>>

\* the groups (\d+) and ([a-z]?) of a match of an item pattern whose digits
\* start at the 1-based position p of s
ItemGroups(s, p) ==
    LET n == RunLen(DigitSet, s, p, Unbounded) IN
    [num |-> SubSeq(s, p, p + n - 1),
     letter |-> SubSeq(s, p + n, p + n + RunLen(LowerSet, s, p + n, 1) - 1)]

\* the pair (matched, item_key)
ItemKey(normalized, item_match) ==
    IF item_match.found
    THEN LET p == item_match.start + 5
             g == ItemGroups(normalized, p + RunLen(SpaceSet, normalized, p, Unbounded))
         IN  <<TRUE, "item_" \o g.num \o g.letter>>
    ELSE <<FALSE, "">>

ExplicitKey(normalized) == ItemKey(normalized, Search(ItemPattern, normalized))

is_target_item_explicit(text) == ExplicitKey(normalize_anchor_text(text))

\* variation in normalized
Contains(s, sub) ==
    \E i \in 1..(Len(s) - Len(sub) + 1) : SubSeq(s, i, i + Len(sub) - 1) = sub

\* the first key of SECTION_MAPPINGS with a variation in normalized
SemanticKey(normalized) ==
    LET hits == {k \in DOMAIN SECTION_MAPPINGS :
                    \E v \in DOMAIN SECTION_MAPPINGS[k].variations :
                        Contains(normalized, SECTION_MAPPINGS[k].variations[v])}
    IN  IF hits # {}
        THEN <<TRUE, SECTION_MAPPINGS[CHOOSE k \in hits : \A j \in hits : k <= j].key>>
        ELSE <<FALSE, "">>

is_target_item_semantic(text) == SemanticKey(normalize_anchor_text(text))

\* r'item_(\d+)([a-z]?)'
SortKeyPattern == Lit("item_") \o <<Plus(DigitSet), Opt(LowerSet)>>

SentinelNumber == 999

\* the tuple (number, letter)
get_item_sort_key(item_name) ==
    IF Match(SortKeyPattern, item_name).found
    THEN LET g == ItemGroups(item_name, 6) IN <<Int10(g.num), g.letter>>
    ELSE <<SentinelNumber, "">>

\* the order of Python on the strings '' and 'a'..'z'
LetterRank(l) == IF l = "" THEN 0 ELSE IndexIn(Letters, l)

\* a < b on the tuples (number, letter)
SortKeyLess(a, b) ==
    a[1] < b[1] \/ (a[1] = b[1] /\ LetterRank(a[2]) < LetterRank(b[2]))

RECURSIVE InsertByKey(_, _, _)
\* x put into the sorted sequence s after every element whose key is not greater
InsertByKey(Key(_), s, x) ==
    IF s = <<>> THEN <<x>>
    ELSE IF SortKeyLess(Key(x), Key(s[1])) THEN <<x>> \o s
         ELSE <<s[1]>> \o InsertByKey(Key, Tail(s), x)

RECURSIVE SortedByKey(_, _)
\* sorted(s, key=Key): stable
SortedByKey(Key(_), s) ==
    IF s = <<>> THEN <<>>
    ELSE InsertByKey(Key, SortedByKey(Key, SubSeq(s, 1, Len(s) - 1)), s[Len(s)])

SectionSortKey(section) == get_item_sort_key(section[1])

\* find_next_available_section with >= for >: a section is its own boundary
find_next_section_geq(all_sections, current_section) ==
    LET current_sort_key == get_item_sort_key(current_section)
        next_sections == SelectSeq(all_sections,
            LAMBDA x : ~SortKeyLess(SectionSortKey(x), current_sort_key))
    IN  IF next_sections # <<>>
        THEN SortedByKey(SectionSortKey, next_sections)[1][2]
        ELSE None

\* the section_id of the first of the sections after current_section, or None
find_next_available_section(all_sections, current_section) ==
    LET current_sort_key == get_item_sort_key(current_section)
        next_sections == SelectSeq(all_sections,
            LAMBDA x : SortKeyLess(current_sort_key, SectionSortKey(x)))
    IN  IF next_sections # <<>>
        THEN SortedByKey(SectionSortKey, next_sections)[1][2]
        ELSE None

(***************************************************************************)
(* The document.  soup is the parse tree in document order: node n is a    *)
(* tag or a string (tag "#text"), parent is the index of its parent, 0     *)
(* for the children of the BeautifulSoup object; an attribute that is not  *)
(* there is None.                                                          *)
(***************************************************************************)
TextTag == "#text"

Tag(tag, parent, id, name, href) ==
    [tag |-> tag, parent |-> parent, id |-> id, name |-> name, href |-> href,
     text |-> ""]
NavigableString(parent, text) ==
    [tag |-> TextTag, parent |-> parent, id |-> None, name |-> None, href |-> None,
     text |-> text]

IsTag(doc, n) == doc[n].tag # TextTag

RECURSIVE IsInside(_, _, _)
\* node n is a descendant of node a (every node is one of the root, 0)
IsInside(doc, n, a) ==
    a = 0 \/ (LET p == doc[n].parent IN p # 0 /\ (p = a \/ IsInside(doc, p, a)))

\* the truth value of an attribute value: None and '' are false
Truthy(v) == v # None /\ v # ""
\* a or b
OrElse(a, b) == IF Truthy(a) THEN a ELSE b

RECURSIVE JoinStrings(_, _)
\* sep.join(strings)
JoinStrings(sep, strings) ==
    IF strings = <<>> THEN ""
    ELSE IF Len(strings) = 1 THEN strings[1]
    ELSE strings[1] \o sep \o JoinStrings(sep, Tail(strings))

RECURSIVE StrippedStrings(_, _, _)
\* the strings inside node a from node n on, stripped, the empty ones left out
StrippedStrings(doc, a, n) ==
    IF n > Len(doc) THEN <<>>
    ELSE IF ~IsTag(doc, n) /\ IsInside(doc, n, a) /\ Strip(doc[n].text) # ""
         THEN <<Strip(doc[n].text)>> \o StrippedStrings(doc, a, n + 1)
         ELSE StrippedStrings(doc, a, n + 1)

\* a.get_text(separator=" ", strip=True)
get_text(doc, a) == JoinStrings(" ", StrippedStrings(doc, a, a + 1))

RECURSIVE AllStrings(_, _)
AllStrings(doc, n) ==
    IF n > Len(doc) THEN ""
    ELSE (IF IsTag(doc, n) THEN "" ELSE doc[n].text) \o AllStrings(doc, n + 1)
\* soup.get_text(): every string of the document, as it is
flat_text(doc) == AllStrings(doc, 1)

\* a.find_next_sibling(): the next tag with the same parent, 0 (None) when none
find_next_sibling(doc, a) ==
    LET later == {n \in (a + 1)..Len(doc) :
                    IsTag(doc, n) /\ doc[n].parent = doc[a].parent}
    IN  IF a = 0 \/ later = {} THEN 0 ELSE CHOOSE n \in later : \A m \in later : n <= m

\* the last node of the subtree of a
SubtreeEnd(doc, a) ==
    CHOOSE e \in a..Len(doc) :
        /\ \A n \in (a + 1)..e : IsInside(doc, n, a)
        /\ (e = Len(doc) \/ ~IsInside(doc, e + 1, a))

\* the subtree of a, its positions relative to a
Subtree(doc, a) ==
    [i \in 1..(SubtreeEnd(doc, a) - a + 1) |->
        IF i = 1 THEN [doc[a] EXCEPT !.parent = 0]
        ELSE [doc[a + i - 1] EXCEPT !.parent = @ - a + 1]]

\* a == b on two nodes (0 is None): Tag.__eq__ compares the name, the
\* attributes and the contents, not the identity
NodeEq(doc, a, b) ==
    IF a = 0 \/ b = 0 THEN a = b ELSE a = b \/ Subtree(doc, a) = Subtree(doc, b)

\* the tags among the nodes that satisfy Test, in document order
FindAll(doc, Test(_)) ==
    SelectSeq([n \in 1..Len(doc) |-> n], LAMBDA n : IsTag(doc, n) /\ Test(n))

\* find(...): the first of find_all(...), 0 (None) when there is none
First(found) == IF found = <<>> THEN 0 ELSE found[1]

(***************************************************************************)
(* Anchor discovery                                                        *)
(***************************************************************************)
HeaderTags == {"h1", "h2", "h3", "h4", "h5", "h6", "p", "div", "span", "td", "th"}

MaxHeaderLen == 200

\* the key under which a label is recorded, None when it is not: the key of
\* the explicit matcher when it matched and its key is not seen, otherwise the
\* key of the semantic matcher when it matched and its key is not seen
RecordedKey(explicit, semantic, seen) ==
    IF explicit[1] /\ explicit[2] \notin seen THEN explicit[2]
    ELSE IF semantic[1] /\ semantic[2] \notin seen THEN semantic[2]
    ELSE None

KeyToRecord(text, seen) ==
    RecordedKey(is_target_item_explicit(text), is_target_item_semantic(text), seen)

\* RecordElement with the id it writes numbered after the append: the id of
\* the element is not the one recorded
RecordElementNumberedAfter(st, element, item_key) ==
    IF item_key = None THEN st
    ELSE LET element_id == "section_" \o item_key \o "_"
                             \o ToString(Len(st.found_sections))
             written_id == "section_" \o item_key \o "_"
                             \o ToString(Len(st.found_sections) + 1)
             el == st.soup[element]
             fresh == ~Truthy(el.id) /\ ~Truthy(el.name)
             target_id == IF fresh THEN element_id ELSE OrElse(el.id, el.name)
         IN  [soup |-> IF fresh THEN [st.soup EXCEPT ![element].id = written_id]
                       ELSE st.soup,
              found_sections |-> Append(st.found_sections, <<item_key, target_id>>),
              seen |-> st.seen \cup {item_key}]

\* the element is recorded under item_key, and gets an id when it has neither
\* an id nor a name
RecordElement(st, element, item_key) ==
    IF item_key = None THEN st
    ELSE LET element_id == "section_" \o item_key \o "_"
                             \o ToString(Len(st.found_sections))
             el == st.soup[element]
             fresh == ~Truthy(el.id) /\ ~Truthy(el.name)
             target_id == IF fresh THEN element_id ELSE OrElse(el.id, el.name)
         IN  [soup |-> IF fresh THEN [st.soup EXCEPT ![element].id = element_id]
                       ELSE st.soup,
              found_sections |-> Append(st.found_sections, <<item_key, target_id>>),
              seen |-> st.seen \cup {item_key}]

ScanElement(st, element, text) ==
    IF text = "" \/ Len(text) > MaxHeaderLen THEN st
    ELSE RecordElement(st, element, KeyToRecord(text, st.seen))

\* one turn of the loop over all_elements: st is the soup (an element may get
\* an id), found_sections and seen
TextSearchStep(st, element) == ScanElement(st, element, get_text(st.soup, element))

RECURSIVE FoldSteps(_, _, _)
\* the loop: for x in list: st = Step(st, x)
FoldSteps(Step(_, _), st, list) ==
    IF list = <<>> THEN st ELSE FoldSteps(Step, Step(st, list[1]), Tail(list))

SearchResult(st) == [sections |-> st.found_sections, soup |-> st.soup]

\* the pair of found_sections and the soup it leaves
extract_sections_by_text_search(doc) ==
    SearchResult(FoldSteps(TextSearchStep,
                           [soup |-> doc, found_sections |-> <<>>, seen |-> {}],
                           FindAll(doc, LAMBDA n : doc[n].tag \in HeaderTags)))

\* soup.find_all("a", href=True)
Anchors(doc) == FindAll(doc, LAMBDA n : doc[n].tag = "a" /\ doc[n].href # None)

RecordAnchor(st, href, item_key) ==
    IF item_key = None THEN st
    ELSE [all_sections |-> Append(st.all_sections, <<item_key, StripChars({"#"}, href)>>),
          seen |-> st.seen \cup {item_key}]

ScanAnchor(st, href, label_raw) ==
    IF ~StartsWith(href, "#") THEN st
    ELSE IF label_raw = "" THEN st
    ELSE RecordAnchor(st, href, KeyToRecord(label_raw, st.seen))

\* one turn of the loop over the anchors: st is all_sections and seen (the
\* loops of extract_all_section_anchors and extract_target_anchors are the same)
AnchorStep(doc, st, a) == ScanAnchor(st, Strip(doc[a].href), get_text(doc, a))

\* the loop over the anchors, from no sections and nothing seen
AnchorLoop(doc) ==
    FoldSteps(LAMBDA st, a : AnchorStep(doc, st, a),
              [all_sections |-> <<>>, seen |-> {}], Anchors(doc)).all_sections

\* if not results: results = extract_sections_by_text_search(soup)
OrTextSearch(doc, results) ==
    IF results = <<>> THEN extract_sections_by_text_search(doc)
    ELSE [sections |-> results, soup |-> doc]

\* all_sections.sort(key=lambda x: get_item_sort_key(x[0]))
SortSections(found) ==
    [sections |-> SortedByKey(SectionSortKey, found.sections), soup |-> found.soup]

\* the pair of all_sections, sorted, and the soup the text search leaves
extract_all_section_anchors(doc) == SortSections(OrTextSearch(doc, AnchorLoop(doc)))

\* the pair of the results, in document order, and the soup the text search leaves
extract_target_anchors(doc) == OrTextSearch(doc, AnchorLoop(doc))

(***************************************************************************)
(* Content extraction                                                      *)
(***************************************************************************)
MinTextLen == 10
MinOwnTextLen == 50

\* the text is kept when it has more than 10 characters
Kept(text) == IF text # "" /\ Len(text) > MinTextLen THEN <<text>> ELSE <<>>

\* what the walks collect of a sibling
Collected(doc, current) == Kept(get_text(doc, current))

\* current, with the text current_text, reads as the header of a section and
\* is not the target
IsOtherHeader(doc, current, target_element, current_text) ==
    /\ current_text # "" /\ Len(current_text) < MaxHeaderLen
    /\ (is_target_item_explicit(current_text)[1]
            \/ is_target_item_semantic(current_text)[1])
    /\ ~NodeEq(doc, current, target_element)

RECURSIVE TextBasedWalk(_, _, _, _)
\* the while loop of find_section_content_text_based, from current on
TextBasedWalk(doc, current, target_element, next_target_element) ==
    IF current = 0 THEN <<>>
    ELSE IF next_target_element # 0 /\ NodeEq(doc, current, next_target_element)
    THEN <<>>
    ELSE IF IsOtherHeader(doc, current, target_element, get_text(doc, current))
    THEN <<>>
    ELSE Collected(doc, current)
            \o TextBasedWalk(doc, find_next_sibling(doc, current),
                             target_element, next_target_element)

find_section_content_text_based(doc, target_element, next_target_element) ==
    LET sibling == find_next_sibling(doc, target_element)
        current == IF sibling = 0
                   THEN find_next_sibling(doc, doc[target_element].parent)
                   ELSE sibling
    IN  Strip(JoinStrings("\n\n",
            TextBasedWalk(doc, current, target_element, next_target_element)))

\* soup.find(attrs={attr: value}) and, with a tag name, soup.find(tag, attrs=...)
FindAttr(doc, tags, attr, value) ==
    First(FindAll(doc, LAMBDA n : doc[n].tag \in tags /\ doc[n][attr] = value))
\* the first el of soup.find_all(attrs={attr: True}) with el.get(attr).lower()
\* == value.lower()
FindAttrLower(doc, tags, attr, value) ==
    First(FindAll(doc, LAMBDA n : /\ doc[n].tag \in tags
                                   /\ doc[n][attr] # None
                                   /\ Lower(doc[n][attr]) = Lower(value)))

AnyTag(doc) == {doc[n].tag : n \in 1..Len(doc)} \ {TextTag}

\* a or b on nodes: 0 is None
OrNode(a, b) == IF a # 0 THEN a ELSE b

\* the three strategies that find target_el
ResolveTarget(doc, target_id) ==
    OrNode(FindAttr(doc, AnyTag(doc), "id", target_id),
    OrNode(FindAttrLower(doc, AnyTag(doc), "id", target_id),
    OrNode(FindAttr(doc, {"a"}, "name", target_id),
    OrNode(FindAttrLower(doc, {"a"}, "name", target_id),
    OrNode(FindAttr(doc, AnyTag(doc), "name", target_id),
           FindAttrLower(doc, AnyTag(doc), "name", target_id))))))

\* next_el: the exact matches first, the case-insensitive ones after
ResolveNext(doc, next_target_id) ==
    IF ~Truthy(next_target_id) THEN 0
    ELSE OrNode(FindAttr(doc, AnyTag(doc), "id", next_target_id),
         OrNode(FindAttr(doc, {"a"}, "name", next_target_id),
         OrNode(FindAttr(doc, AnyTag(doc), "name", next_target_id),
         OrNode(FindAttrLower(doc, AnyTag(doc), "id", next_target_id),
                FindAttrLower(doc, AnyTag(doc), "name", next_target_id)))))

RECURSIVE SiblingWalk(_, _, _)
\* while current and current != next_el: collect, go to the next sibling
SiblingWalk(doc, current, next_el) ==
    IF current = 0 \/ NodeEq(doc, current, next_el) THEN <<>>
    ELSE Collected(doc, current)
            \o SiblingWalk(doc, find_next_sibling(doc, current), next_el)

\* where the first walk starts: a named <a> with text is walked itself
WalkStart(doc, target_el) ==
    IF doc[target_el].tag = "a" /\ Truthy(doc[target_el].name)
       /\ get_text(doc, target_el) # ""
    THEN target_el
    ELSE find_next_sibling(doc, target_el)

\* the walk from the sibling after the parent of target_el
ParentWalk(doc, target_el, next_el) ==
    SiblingWalk(doc, find_next_sibling(doc, doc[target_el].parent), next_el)

\* the own text of target_el is kept when it has more than 50 characters
OwnText(own) == IF own # "" /\ Len(own) > MinOwnTextLen THEN <<own>> ELSE <<>>

\* if not collected_text and cond: collected_text is what the fallback collects
IfEmpty(collected_text, cond, fallback) ==
    IF collected_text = <<>> /\ cond THEN fallback ELSE collected_text

\* the walk of the siblings and the three fallback strategies, one after
\* the other while nothing is collected
StructuralCollect(doc, target_el, next_el) ==
    IfEmpty(IfEmpty(IfEmpty(SiblingWalk(doc, WalkStart(doc, target_el), next_el),
                            doc[target_el].tag = "a",
                            ParentWalk(doc, target_el, next_el)),
                    doc[target_el].tag # "a",
                    OwnText(get_text(doc, target_el))),
            TRUE,
            ParentWalk(doc, target_el, next_el))

SyntheticPrefix == "section_"

\* the content of target_el up to next_el, by the walk the form of target_id
\* selects
ContentOf(doc, target_id, target_el, next_el) ==
    IF target_el = 0 THEN ""
    ELSE IF StartsWith(target_id, SyntheticPrefix)
    THEN find_section_content_text_based(doc, target_el, next_el)
    ELSE Strip(JoinStrings("\n\n", StructuralCollect(doc, target_el, next_el)))

find_section_content_advanced(doc, target_id, next_target_id) ==
    ContentOf(doc, target_id, ResolveTarget(doc, target_id),
              ResolveNext(doc, next_target_id))

\* the mapping d with d[k] = v
Put(d, k, v) == [x \in DOMAIN d \cup {k} |-> IF x = k THEN v ELSE d[x]]
EmptyDict == [x \in {} |-> ""]

\* if full_text: extracted[label] = full_text
Store(mapping, label, full_text) ==
    IF full_text # "" THEN Put(mapping, label, full_text) ELSE mapping

\* ExtractStep without the test of TARGET_SECTIONS: every anchor gives a section
ExtractStepAnyKey(doc, all_sections, mapping, target) ==
    Store(mapping, target[1],
          find_section_content_advanced(doc, target[2],
               find_next_available_section(all_sections, target[1])))

\* one turn of the loop over target_ids
ExtractStep(doc, all_sections, mapping, target) ==
    IF target[1] \notin TargetSet THEN mapping
    ELSE Store(mapping, target[1],
               find_section_content_advanced(doc, target[2],
                    find_next_available_section(all_sections, target[1])))

\* the loop over target_ids, with all_sections and the soup of found
ExtractLoop(found, target_ids) ==
    [extracted |-> FoldSteps(
            LAMBDA mapping, target :
                ExtractStep(found.soup, found.sections, mapping, target),
            EmptyDict, target_ids),
      soup |-> found.soup]

\* the pair of extracted and the soup that extract_all_section_anchors leaves
extract_div_text_blocks(doc, target_ids) ==
    IF target_ids = <<>> THEN [extracted |-> EmptyDict, soup |-> doc]
    ELSE ExtractLoop(extract_all_section_anchors(doc), target_ids)

(***************************************************************************)
(* The quality gate                                                        *)
(***************************************************************************)
MaxSectionWords == 30000

\* the number of the target sections with content
FoundCount(mapping) ==
    Cardinality({i \in DOMAIN TARGET_SECTIONS :
        /\ TARGET_SECTIONS[i] \in DOMAIN mapping
        /\ mapping[TARGET_SECTIONS[i]] # ""})

\* a section has more than 30000 words
TooLong(mapping) ==
    \E section \in DOMAIN mapping :
        /\ mapping[section] # ""
        /\ WordCount(mapping[section]) > MaxSectionWords

\* should_use_xbrl_fallback with < for <=: half of the targets is enough
gate_with_strict_count(mapping) ==
    \/ DOMAIN mapping = {}
    \/ FoundCount(mapping) < Len(TARGET_SECTIONS) \div 2
    \/ TooLong(mapping)

\* should_use_xbrl_fallback without the limit on the words of a section
gate_without_word_limit(mapping) ==
    \/ DOMAIN mapping = {}
    \/ FoundCount(mapping) <= Len(TARGET_SECTIONS) \div 2

should_use_xbrl_fallback(mapping) ==
    \/ DOMAIN mapping = {}
    \/ FoundCount(mapping) <= Len(TARGET_SECTIONS) \div 2
    \/ TooLong(mapping)

(***************************************************************************)
(* The pattern fallback (XBRLSectionParser)                                *)
(***************************************************************************)
RECURSIVE Cat(_)
\* the parts of a pattern, one after the other
Cat(parts) == IF parts = <<>> THEN <<>> ELSE parts[1] \o Cat(Tail(parts))

Ws == <<Star(SpaceSet)>>
Dot == <<One({"."})>>
\* [a-c] under re.IGNORECASE
AtoC == {"a", "b", "c", "A", "B", "C"}

section_mapping == <<
    [section_id |-> "item_1", patterns |-> <<
        Cat(<<LitI("item"), Ws, LitI("1"), <<WordBoundary, NotAhead(Ws \o <<One(AtoC)>>)>> >>),
        Cat(<<LitI("business"), Ws, <<EndOfString>> >>),
        Cat(<<LitI("item"), Ws, LitI("1"), Ws, Dot, Ws, LitI("business")>>) >>],
    [section_id |-> "item_1a", patterns |-> <<
        Cat(<<LitI("item"), Ws, LitI("1a"), <<WordBoundary>> >>),
        Cat(<<LitI("risk"), Ws, LitI("factors")>>),
        Cat(<<LitI("item"), Ws, LitI("1"), Ws, LitI("a"), Ws, Dot, Ws, LitI("risk")>>) >>],
    [section_id |-> "item_1b", patterns |-> <<
        Cat(<<LitI("item"), Ws, LitI("1b"), <<WordBoundary>> >>),
        Cat(<<LitI("unresolved"), Ws, LitI("staff"), Ws, LitI("comments")>>),
        Cat(<<LitI("item"), Ws, LitI("1"), Ws, LitI("b"), Ws, Dot, Ws,
              LitI("unresolved")>>) >>],
    [section_id |-> "item_1c", patterns |-> <<
        Cat(<<LitI("item"), Ws, LitI("1c"), <<WordBoundary>> >>),
        LitI("cybersecurity"),
        Cat(<<LitI("item"), Ws, LitI("1"), Ws, LitI("c"), Ws, Dot, Ws,
              LitI("cybersecurity")>>) >>],
    [section_id |-> "item_7", patterns |-> <<
        Cat(<<LitI("item"), Ws, LitI("7"),
              <<WordBoundary, NotAhead(Ws \o <<One({"a", "A"})>>)>> >>),
        Cat(<<LitI("management"), <<Opt({"'"})>>, LitI("s"), Ws, LitI("discussion"), Ws,
              LitI("and"), Ws, LitI("analysis")>>),
        LitI("md&a"),
        Cat(<<LitI("item"), Ws, LitI("7"), Ws, Dot, Ws, LitI("management")>>) >>],
    [section_id |-> "item_7a", patterns |-> <<
        Cat(<<LitI("item"), Ws, LitI("7a"), <<WordBoundary>> >>),
        Cat(<<LitI("quantitative"), Ws, LitI("and"), Ws, LitI("qualitative"), Ws,
              LitI("disclosures")>>),
        Cat(<<LitI("market"), Ws, LitI("risk")>>),
        Cat(<<LitI("item"), Ws, LitI("7"), Ws, LitI("a"), Ws, Dot, Ws,
              LitI("quantitative")>>) >>] >>

ItemNumber == Cat(<<LitI("item"), Ws, <<Plus(DigitSet), Opt(AtoC)>> >>)

header_indicators == <<
    Cat(<<ItemNumber, Ws, Dot>>),
    Cat(<< <<StartOfString>>, Ws, ItemNumber, Ws>>),
    Cat(<<LitI("part"), Ws, <<Plus({"i", "v", "I", "V"})>>, Ws, ItemNumber>>) >>

_is_section_header(context) ==
    \E i \in DOMAIN header_indicators : Search(header_indicators[i], context).found

ContextWindow == 100

Max(a, b) == IF a > b THEN a ELSE b
Min(a, b) == IF a < b THEN a ELSE b

\* start_pos = None
NoPos == -1

\* the context of a match has the form of a header
Accepted(all_text, match) ==
    _is_section_header(Slice(all_text, Max(0, match.start - ContextWindow),
                             Min(Len(all_text), match.end + ContextWindow)))

\* the start of the first of the matches, NoPos when there is none
FirstStart(matches) == IF matches = <<>> THEN NoPos ELSE matches[1].start

\* the start of the first match, in the order of finditer, whose context is
\* that of a header; NoPos when there is none
FirstHeaderMatch(pattern, all_text) ==
    FirstStart(SelectSeq(FindIter(pattern, all_text, 1),
                         LAMBDA match : Accepted(all_text, match)))

\* the truth value of an offset: None and 0 are false
TruthyPos(pos) == pos # NoPos /\ pos # 0

\* start_pos after a pattern: the start of its header match, when it has one
Assigned(hit, start_pos) == IF hit # NoPos THEN hit ELSE start_pos

RECURSIVE PatternLoop(_, _, _, _)
RECURSIVE NextPattern(_, _, _, _)
\* the loop over the patterns of a section from pattern k on: a pattern
\* without a header match leaves start_pos as it is, a true start_pos ends it
PatternLoop(patterns, k, all_text, start_pos) ==
    IF k > Len(patterns) THEN start_pos
    ELSE NextPattern(patterns, k, all_text,
                     Assigned(FirstHeaderMatch(patterns[k], all_text), start_pos))
\* if start_pos: break
NextPattern(patterns, k, all_text, start_pos) ==
    IF TruthyPos(start_pos) THEN start_pos
    ELSE PatternLoop(patterns, k + 1, all_text, start_pos)

\* the section ids, in the order of section_mapping
SectionIndex(id) == CHOOSE i \in DOMAIN section_mapping : section_mapping[i].section_id = id

\* boundaries after the first loop: section_id -> start_pos, for the sections
\* whose start_pos is true
Recorded(start_pos) ==
    LET found == {i \in DOMAIN section_mapping : TruthyPos(start_pos[i])} IN
    [id \in {section_mapping[i].section_id : i \in found} |-> start_pos[SectionIndex(id)]]

SectionStarts(all_text) ==
    Recorded([i \in DOMAIN section_mapping |->
                PatternLoop(section_mapping[i].patterns, 1, all_text, NoPos)])

\* (a, x) < (b, y) on the tuples (start_pos, section_id); the section ids
\* compare as strings, which is their order in section_mapping
PositionLess(starts, x, y) ==
    starts[x] < starts[y] \/ (starts[x] = starts[y] /\ SectionIndex(x) < SectionIndex(y))

\* WithEnds without the order of the sections: every section runs to the end
WithEndsAtLength(starts, length) == [id \in DOMAIN starts |-> <<starts[id], length>>]

\* the second loop: each section ends where the next of sorted_sections
\* starts, the last one at the end of the text
WithEnds(starts, length) ==
    LET Later(id) == {x \in DOMAIN starts : PositionLess(starts, id, x)}
        NextOf(id) == CHOOSE x \in Later(id) :
                        \A y \in Later(id) : x = y \/ PositionLess(starts, x, y)
    IN  [id \in DOMAIN starts |->
            <<starts[id], IF Later(id) = {} THEN length ELSE starts[NextOf(id)]>>]

\* section_id -> (start_pos, end_pos)
find_section_boundaries(all_text) == WithEnds(SectionStarts(all_text), Len(all_text))

RECURSIVE SubFrom(_, _, _, _)
RECURSIVE SubAfter(_, _, _, _, _)
\* re.sub(re, repl, s), from the 0-based offset i on; the matches of re are
\* not empty
SubFrom(re, repl, s, i) == SubAfter(re, repl, s, i, SearchFrom(re, s, i + 1))
SubAfter(re, repl, s, i, m) ==
    IF ~m.found THEN Slice(s, i, Len(s))
    ELSE Slice(s, i, m.start) \o repl \o SubFrom(re, repl, s, m.end)

\* r'&[a-zA-Z]+;'
EntityPattern == <<One({"&"}), Plus(LowerSet \cup UpperSet), One({";"})>>

clean_text(text) ==
    Strip(SubFrom(EntityPattern, " ", CollapseWhitespace(text), 0))

extract_section_content(full_text, start_pos, end_pos) ==
    clean_text(IF end_pos # 0 THEN Slice(full_text, start_pos, end_pos)
               ELSE Slice(full_text, start_pos, Len(full_text)))

\* one turn of the loop over TARGET_SECTIONS
XbrlStep(all_text, boundaries, mapping, section_id) ==
    IF section_id \notin DOMAIN boundaries THEN mapping
    ELSE Store(mapping, section_id,
               extract_section_content(all_text, boundaries[section_id][1],
                                       boundaries[section_id][2]))

\* the loop over TARGET_SECTIONS
SectionsOf(all_text, boundaries) ==
    FoldSteps(LAMBDA mapping, section_id :
                XbrlStep(all_text, boundaries, mapping, section_id),
              EmptyDict, TARGET_SECTIONS)

ParseText(all_text) == SectionsOf(all_text, find_section_boundaries(all_text))

parse_10k_filing_xbrl(doc) == ParseText(flat_text(doc))

(***************************************************************************)
(* The documents of the model: a table of contents of links (or none), and *)
(* for each entry its target node, its heading and a paragraph.            *)
(***************************************************************************)
\* kind is the shape of the target: "h2" <h2 id=frag>heading</h2>,
\* "a" <a name=frag></a><p>heading</p>, "pa" <p><a name=frag></a>heading</p>,
\* "p" <p>heading</p> (no id: only the text search finds it)
Entry(label, frag, kind, heading, para) ==
    [label |-> label, frag |-> frag, kind |-> kind, heading |-> heading, para |-> para]

Library == <<
    Entry("Item 1. Business", "i1", "h2", "Item 1. Business", "We make and sell widgets."),
    Entry("Item 1A. Risk Factors", "i1a", "a", "Item 1A. Risk Factors",
          "Our sales may decline."),
    Entry("Item 1B. Unresolved Staff Comments", "i1b", "h2",
          "Item 1B. Unresolved Staff Comments", "None."),
    Entry("Cybersecurity", "i1c", "h2", "Item 1C. Cybersecurity",
          "We protect our systems."),
    Entry("Item 2. Properties", "i2", "pa", "Item 2. Properties", "We lease one plant."),
    Entry("Item 7. MD&A", "i7", "h2", "Item 7. Management's Discussion and Analysis",
          "Revenue grew this year."),
    Entry("Item 7A. Market Risk", "i7a", "p", "Item 7A. Market Risk",
          "Rates may change a lot.") >>

RECURSIVE Concat(_)
\* the blocks one after the other, the parents of each block moved with it
Concat(blocks) ==
    IF blocks = <<>> THEN <<>>
    ELSE LET rest == Concat(SubSeq(blocks, 1, Len(blocks) - 1))
             last == blocks[Len(blocks)]
         IN  rest \o [i \in 1..Len(last) |->
                        IF last[i].parent = 0 THEN last[i]
                        ELSE [last[i] EXCEPT !.parent = @ + Len(rest)]]

Newline == NavigableString(0, "\n")
Paragraph(text) == <<Tag("p", 0, None, None, None), NavigableString(1, text), Newline>>

LinkBlock(e) ==
    <<Tag("p", 0, None, None, None), Tag("a", 1, None, None, "#" \o e.frag),
      NavigableString(2, e.label), Newline>>

TargetBlock(e) ==
    CASE e.kind = "h2" ->
            <<Tag("h2", 0, e.frag, None, None), NavigableString(1, e.heading), Newline>>
      [] e.kind = "a" ->
            Concat(<< <<Tag("a", 0, None, e.frag, None), Newline>>, Paragraph(e.heading)>>)
      [] e.kind = "pa" ->
            <<Tag("p", 0, None, None, None), Tag("a", 1, None, e.frag, None),
              NavigableString(1, e.heading), Newline>>
      [] e.kind = "p" -> Paragraph(e.heading)

SectionBlock(e) == Concat(<<TargetBlock(e), Paragraph(e.para)>>)

\* the document of the entries chosen, with or without the links and a title
Document(chosen, toc, title) ==
    Concat((IF title THEN <<Paragraph("Annual Report")>> ELSE <<>>)
           \o (IF toc THEN [i \in 1..Len(chosen) |-> LinkBlock(chosen[i])] ELSE <<>>)
           \o [i \in 1..Len(chosen) |-> SectionBlock(chosen[i])])

MaxEntries == 5

\* the entries of the library at the positions of S, in their order
Chosen(S) ==
    LET at == SelectSeq([i \in 1..Len(Library) |-> i], LAMBDA i : i \in S) IN
    [k \in 1..Len(at) |-> Library[at[k]]]

Documents ==
    {Document(Chosen(S), toc, title) :
        S \in {T \in SUBSET (1..Len(Library)) : Cardinality(T) <= MaxEntries},
        toc \in BOOLEAN, title \in BOOLEAN}

(***************************************************************************)
(* main                                                                    *)
(***************************************************************************)
Init ==
    /\ pc = "anchors"
    /\ soup \in Documents
    /\ toc_targets = <<>>
    /\ extracted = EmptyDict
    /\ xbrl_parser = None
    /\ result = <<>>
    /\ args = <<>> /\ locals = <<>> /\ ret = None

\* the anchors found, and the soup the search for them leaves
SetAnchors(found) == toc_targets' = found.sections /\ soup' = found.soup

\* toc_targets = extract_target_anchors(soup)
ExtractTargetAnchors ==
    /\ pc = "anchors"
    /\ SetAnchors(extract_target_anchors(soup))
    /\ pc' = "blocks"
    /\ UNCHANGED <<extracted, xbrl_parser, result, call_vars>>

\* the sections extracted, and the soup the extraction leaves
SetBlocks(blocks) == extracted' = blocks.extracted /\ soup' = blocks.soup

\* if toc_targets: extracted = extract_div_text_blocks(soup, toc_targets)
ExtractDivTextBlocks ==
    /\ pc = "blocks"
    /\ IF toc_targets # <<>>
       THEN SetBlocks(extract_div_text_blocks(soup, toc_targets))
       ELSE UNCHANGED <<extracted, soup>>
    /\ pc' = "gate"
    /\ UNCHANGED <<toc_targets, xbrl_parser, result, call_vars>>

\* if should_use_xbrl_fallback(extracted, target_found): the fallback is taken
QualityGate ==
    /\ pc = "gate"
    /\ pc' = IF should_use_xbrl_fallback(extracted) THEN "xbrl" ELSE "save"
    /\ UNCHANGED <<main_vars, call_vars>>

\* xbrl_parser = XBRLSectionParser(); extracted = parse_10k_filing_xbrl(soup)
XbrlFallback ==
    /\ pc = "xbrl"
    /\ xbrl_parser' = "XBRLSectionParser"
    /\ extracted' = parse_10k_filing_xbrl(soup)
    /\ pc' = "save"
    /\ UNCHANGED <<soup, toc_targets, result, call_vars>>

\* if extracted: the result, with its method, is written
Save ==
    /\ pc = "save"
    /\ result' = IF DOMAIN extracted # {}
                 THEN <<[extraction_method |->
                            IF should_use_xbrl_fallback(extracted)
                            THEN "xbrl_fallback" ELSE "toc_anchor",
                         sections |-> extracted]>>
                 ELSE <<>>
    /\ pc' = "done"
    /\ UNCHANGED <<soup, toc_targets, extracted, xbrl_parser, call_vars>>

Next ==
    \/ ExtractTargetAnchors
    \/ ExtractDivTextBlocks
    \/ QualityGate
    \/ XbrlFallback
    \/ Save

Spec == Init /\ [][Next]_vars

\* the labels of the navigation links of the document, in its order
LinkLabels == [i \in DOMAIN Anchors(soup) |-> get_text(soup, Anchors(soup)[i])]

\* the document of the end-to-end scenario: its links are labeled "Item 1.
\* Business", "Item 1A. Risk Factors" and "Item 7. MD&A"
ThreeLinks == LinkLabels = <<"Item 1. Business", "Item 1A. Risk Factors", "Item 7. MD&A">>

\* the mapping holds exactly the three sections, each with content
ThreeSections(mapping) ==
    /\ DOMAIN mapping = {"item_1", "item_1a", "item_7"}
    /\ \A k \in DOMAIN mapping : mapping[k] # ""

C3_LabelAgrees ==
    result # <<>> =>
        /\ result[1].extraction_method = "xbrl_fallback" <=> xbrl_parser # None
        /\ result[1].extraction_method = "toc_anchor" <=> xbrl_parser = None

\* the keys of the mapping are targets, and their texts are not empty
TargetsWithContent(mapping) ==
    \A k \in DOMAIN mapping : k \in TargetSet /\ mapping[k] # ""

\* C8: in every run, under both methods, a key is in the sections only if it
\* is one of the six targets and its text is not empty: an anchor of another
\* key is a boundary and never gives a section.
C8_TargetSections ==
    /\ TargetsWithContent(extracted)
    /\ result # <<>> => TargetsWithContent(result[1].sections)

\* C8, its case: a run with an anchor that is a boundary only, and with an
\* anchor of a target that gave no content, has written its result
C8_Witness ==
    /\ pc = "done" /\ result # <<>>
    /\ \E i \in DOMAIN toc_targets : toc_targets[i][1] \notin TargetSet
    /\ \E i \in DOMAIN toc_targets :
            toc_targets[i][1] \in TargetSet \ DOMAIN result[1].sections

(***************************************************************************)
(* get_item_sort_key, on the keys of two sections                          *)
(***************************************************************************)
\* main has not run: the functions below are studied on their own
NoRun ==
    /\ soup = <<>> /\ toc_targets = <<>> /\ extracted = EmptyDict
    /\ xbrl_parser = None /\ result = <<>>

\* keys the explicit matcher makes of a label ("Item 01" gives item_01), keys
\* of SECTION_MAPPINGS, and names that are no keys
KeyNames == <<"item_1", "item_1a", "item_1c", "item_2", "item_7", "item_7a", "item_10",
              "item_01", "item_999", "item_999a", "item_1000", "item_", "section">>

InitSortKey ==
    /\ pc = "sort_key"
    /\ args \in {<<a, b>> : a \in Range(KeyNames), b \in Range(KeyNames)}
    /\ locals = <<>> /\ ret = None
    /\ NoRun

\* the keys sorted() compares: get_item_sort_key of each of the two names
GetItemSortKey ==
    /\ pc = "sort_key"
    /\ ret' = <<get_item_sort_key(args[1]), get_item_sort_key(args[2])>>
    /\ pc' = "done"
    /\ UNCHANGED <<main_vars, args, locals>>

SpecSortKey == InitSortKey /\ [][GetItemSortKey]_vars

\* a name of the form item_<number><optional letter>
WellFormed(item_name) == Match(SortKeyPattern \o <<EndOfString>>, item_name).found

\* C7: the order of get_item_sort_key is by number first and letter second,
\* item_1 < item_1a < item_1c < item_2 < item_7 < item_7a; the key of a
\* malformed name sorts strictly after the key of every well-formed name; the
\* keys of two distinct well-formed names are never equal.
C7_CanonicalOrder ==
    pc = "done" =>
        /\ (WellFormed(args[1]) /\ ~WellFormed(args[2]) => SortKeyLess(ret[1], ret[2]))
        /\ (WellFormed(args[1]) /\ WellFormed(args[2]) /\ args[1] # args[2]
                => ret[1] # ret[2])
        /\ \A i, j \in 1..6 :
                (args[1] = KeyNames[i] /\ args[2] = KeyNames[j] /\ i < j)
                    => SortKeyLess(ret[1], ret[2])

(***************************************************************************)
(* find_next_available_section, on a catalog and a section                 *)
(***************************************************************************)
\* the keys of the anchors of a document, in the order of the document
CatalogKeys == <<"item_7", "item_1a", "item_10", "item_1", "item_2", "item_7a", "item_1b">>

\* the anchor of a key
AnchorOf(key) == <<key, "ref_" \o key>>

MaxCatalog == 3

\* all_sections as extract_all_section_anchors returns it: at most one anchor
\* for a key, sorted
Catalogs ==
    {SortedByKey(SectionSortKey,
                 LET at == SelectSeq([i \in DOMAIN CatalogKeys |-> i], LAMBDA i : i \in S)
                 IN  [k \in 1..Len(at) |-> AnchorOf(CatalogKeys[at[k]])]) :
        S \in {T \in SUBSET DOMAIN CatalogKeys : Cardinality(T) <= MaxCatalog}}

InitResolver ==
    /\ pc = "resolve"
    /\ args \in {<<all_sections, current_section>> :
                    all_sections \in Catalogs, current_section \in Range(CatalogKeys)}
    /\ locals = <<>> /\ ret = None
    /\ NoRun

\* next_boundary_id = find_next_available_section(all_sections, label)
FindNextAvailableSection ==
    /\ pc = "resolve"
    /\ ret' = find_next_available_section(args[1], args[2])
    /\ pc' = "done"
    /\ UNCHANGED <<main_vars, args, locals>>

SpecResolver == InitResolver /\ [][FindNextAvailableSection]_vars

\* the anchors of the catalog whose key is strictly greater than that of the section
Greater(all_sections, current_section) ==
    {i \in DOMAIN all_sections :
        SortKeyLess(get_item_sort_key(current_section),
                    get_item_sort_key(all_sections[i][1]))}

\* C1: find_next_available_section returns None exactly when no anchor of the
\* catalog has a key strictly greater than the section's, and otherwise the
\* reference of the anchor whose key is the smallest of the strictly greater
\* keys.
C1_NextSection ==
    pc = "done" =>
        LET greater == Greater(args[1], args[2]) IN
        IF greater = {} THEN ret = None
        ELSE /\ ret # None
             /\ \E i \in greater :
                    /\ args[1][i][2] = ret
                    /\ \A j \in greater \ {i} :
                            SortKeyLess(get_item_sort_key(args[1][i][1]),
                                        get_item_sort_key(args[1][j][1]))

\* C1, its case: the catalog [item_1, item_1a, item_7] and the section item_1
\* give the reference of item_1a
C1_Witness ==
    /\ pc = "done"
    /\ args = <<<<AnchorOf("item_1"), AnchorOf("item_1a"), AnchorOf("item_7")>>, "item_1">>
    /\ ret = "ref_item_1a"

(***************************************************************************)
(* should_use_xbrl_fallback, on a mapping of sections                      *)
(***************************************************************************)
Twice(s) == s \o s

RECURSIVE Rep(_, _)
\* s * n of Python
Rep(s, n) ==
    IF n = 0 THEN ""
    ELSE IF n % 2 = 1 THEN s \o Rep(s, n - 1)
    ELSE Twice(Rep(s, n \div 2))

\* a text of n words
Words(n) == Rep("w ", n)

\* the keys of a mapping of sections: the targets and a section that is none
GateKeys == Range(TARGET_SECTIONS) \cup {"item_2"}

\* the keys of S in the order of the strings, the first of them
FirstKey(S) == CHOOSE k \in S : \A x \in S : get_item_sort_key(k) = get_item_sort_key(x)
                                    \/ SortKeyLess(get_item_sort_key(k), get_item_sort_key(x))

\* the mappings: the sections of filled have content, the first of them of
\* words words, and those of empty have none
GateInputs ==
    {[filled |-> S, empty |-> E, words |-> n] :
        S \in SUBSET GateKeys,
        E \in SUBSET {"item_1c", "item_2"},
        n \in {1, MaxSectionWords, MaxSectionWords + 1}}

MappingOf(input) ==
    [k \in input.filled \cup input.empty |->
        IF k \notin input.filled THEN ""
        ELSE IF k = FirstKey(input.filled) THEN Words(input.words)
        ELSE "Some text."]

InitGate ==
    /\ pc = "gate"
    /\ args \in GateInputs
    /\ extracted = MappingOf(args)
    /\ soup = <<>> /\ toc_targets = <<>> /\ xbrl_parser = None /\ result = <<>>
    /\ locals = <<>> /\ ret = None

SpecGate == InitGate /\ [][QualityGate]_vars

\* C4: the gate triggers the fallback if and only if the mapping is empty, or
\* at most 3 of the 6 targets have content, or a section has more than 30000
\* words; so it triggers when fewer than 4 targets have content, and does not
\* when exactly 4 have and no section has more than 30000 words.
C4_QualityGate ==
    LET few == Cardinality(args.filled \cap TargetSet) <= 3
        expected == \/ args.filled \cup args.empty = {}
                    \/ few
                    \/ (args.filled # {} /\ args.words > 30000)
    IN  /\ pc = "xbrl" => expected
        /\ pc = "save" => ~expected

\* C4, its case: exactly 4 targets with content, none of more than 30000
\* words, and the gate does not trigger
C4_Witness ==
    /\ pc = "save"
    /\ Cardinality(args.filled \cap TargetSet) = 4
    /\ args.words = 30000
    /\ "item_2" \in args.filled

(***************************************************************************)
(* extract_all_section_anchors, on the labels of a document                *)
(***************************************************************************)
\* labels of links and of blocks: of an item, of a synonym, of an item with
\* the synonym of another item, of nothing
Labels == <<"Item 1. Business", "Item 1A. Risk Factors", "Item 1. Risk Factors",
            "Risk Factors", "Summary", "Item 2. Properties">>

MaxLabels == 3

\* the labels of a document, in its order
LabelLists == UNION {[1..n -> Range(Labels)] : n \in 0..MaxLabels}

\* the fragment of the i-th label
Fragment(i) == "n" \o ToString(i)

\* <a href="#n1">label</a>
LinkNode(label, i) ==
    <<Tag("a", 0, None, None, "#" \o Fragment(i)), NavigableString(1, label), Newline>>

\* <p id="n1">label</p>
BlockNode(label, i) ==
    <<Tag("p", 0, Fragment(i), None, None), NavigableString(1, label), Newline>>

\* the document of the labels: its links, or its blocks when it has no links
LabelDocument(labels, links) ==
    Concat([i \in 1..Len(labels) |->
                IF links THEN LinkNode(labels[i], i) ELSE BlockNode(labels[i], i)])

\* args is the list of the labels, locals whether they are links
InitDiscovery ==
    /\ pc = "discover"
    /\ args \in LabelLists
    /\ locals \in BOOLEAN
    /\ soup = LabelDocument(args, locals)
    /\ toc_targets = <<>> /\ extracted = EmptyDict
    /\ xbrl_parser = None /\ result = <<>>
    /\ ret = None

\* the catalog returned, and the soup the text search leaves
SetCatalog(found) == ret' = found.sections /\ soup' = found.soup

\* all_sections = extract_all_section_anchors(soup)
ExtractAllSectionAnchors ==
    /\ pc = "discover"
    /\ SetCatalog(extract_all_section_anchors(soup))
    /\ pc' = "done"
    /\ UNCHANGED <<toc_targets, extracted, xbrl_parser, result, args, locals>>

SpecDiscovery == InitDiscovery /\ [][ExtractAllSectionAnchors]_vars

\* the key a label is matched to: that of the explicit matcher when it
\* succeeds, that of the semantic matcher only when the explicit one fails
KeyOf(explicit, semantic) ==
    IF explicit[1] THEN explicit[2] ELSE IF semantic[1] THEN semantic[2] ELSE None

Classify(label) == KeyOf(is_target_item_explicit(label), is_target_item_semantic(label))

\* the first label of the document matched to the key
FirstLabel(labels, key) ==
    CHOOSE i \in DOMAIN labels :
        /\ Classify(labels[i]) = key
        /\ \A j \in 1..(i - 1) : Classify(labels[j]) # key

\* the label whose fragment is the reference of an anchor
LabelAt(labels, ref) == labels[CHOOSE i \in DOMAIN labels : Fragment(i) = ref]

\* C5: after anchor discovery over the labels of the links, or of the blocks
\* in the text scan, the catalog has at most one anchor for a key, the
\* reference of a key is that of the first label matched to the key, and a
\* later label matched to a key already seen adds nothing.
C5_FirstMatchWins ==
    pc = "done" =>
        /\ \A i, j \in DOMAIN ret : ret[i][1] = ret[j][1] => i = j
        /\ {ret[i][1] : i \in DOMAIN ret} = {Classify(args[i]) : i \in DOMAIN args} \ {None}
        /\ \A i \in DOMAIN ret :
                /\ \E n \in DOMAIN args : Classify(args[n]) = ret[i][1]
                /\ ret[i][2] = Fragment(FirstLabel(args, ret[i][1]))

\* C6: a label on which the explicit matcher succeeds never gives an anchor
\* under a key of the semantic matcher, also when its explicit key is already
\* seen: the anchor of such a label is under its explicit key.
C6_ExplicitFirst ==
    pc = "done" =>
        \A i \in DOMAIN ret :
            is_target_item_explicit(LabelAt(args, ret[i][2]))[1]
                => ret[i][1] = is_target_item_explicit(LabelAt(args, ret[i][2]))[2]

(***************************************************************************)
(* find_section_boundaries, on the text of a document                      *)
(***************************************************************************)
\* more text than the context of a match has
Filler == Rep("lorem ", 20)

\* pieces of the text of a document: headers of items, a synonym, other text
Segments == <<"Item 1. Business", "Item 1A. Risk Factors", "Item 7. MD&A",
              "Risk Factors", "Annual Report", Filler>>

MaxSegments == 3

RECURSIVE Joined(_)
\* " ".join(pieces)
Joined(pieces) ==
    IF pieces = <<>> THEN ""
    ELSE IF Len(pieces) = 1 THEN pieces[1]
    ELSE pieces[1] \o " " \o Joined(Tail(pieces))

\* soup.get_text() of the documents
Texts == {Joined(pieces) : pieces \in UNION {[1..n -> Range(Segments)] : n \in 1..MaxSegments}}

InitBoundaries ==
    /\ pc = "boundaries"
    /\ args \in Texts
    /\ locals = <<>> /\ ret = None
    /\ NoRun

\* boundaries = self.find_section_boundaries(soup)
FindSectionBoundaries ==
    /\ pc = "boundaries"
    /\ ret' = find_section_boundaries(args)
    /\ pc' = "done"
    /\ UNCHANGED <<main_vars, args, locals>>

SpecBoundaries == InitBoundaries /\ [][FindSectionBoundaries]_vars

RECURSIVE FirstAccepted(_, _, _)
\* the start of the first accepted match of a section: of the first pattern,
\* in the order of the list, that has an accepted match, the first such match
\* in the order of the text; NoPos when no pattern has one
FirstAccepted(patterns, k, all_text) ==
    IF k > Len(patterns) THEN NoPos
    ELSE IF FirstHeaderMatch(patterns[k], all_text) # NoPos
         THEN FirstHeaderMatch(patterns[k], all_text)
    ELSE FirstAccepted(patterns, k + 1, all_text)

\* the section has the boundary the claim gives it
StartsAt(boundaries, section_id, start) ==
    IF start = NoPos THEN section_id \notin DOMAIN boundaries
    ELSE section_id \in DOMAIN boundaries /\ boundaries[section_id][1] = start

\* C9: the start offset of a target is the start of its first accepted match,
\* at every offset of the text, offset 0 included; a target has no boundary
\* only if none of its matches is accepted.
C9_FirstAcceptedStart ==
    pc = "done" =>
        \A i \in DOMAIN section_mapping :
            StartsAt(ret, section_mapping[i].section_id,
                     FirstAccepted(section_mapping[i].patterns, 1, args))

\* the sections in an order of ascending start offsets
AscendingOrders(boundaries) ==
    {order \in [1..Cardinality(DOMAIN boundaries) -> DOMAIN boundaries] :
        /\ \A i, j \in DOMAIN order : i # j => order[i] # order[j]
        /\ \A i, j \in DOMAIN order : i < j => boundaries[order[i]][1] <= boundaries[order[j]][1]}

\* the sections whose slice has the offset
SlicesAt(boundaries, offset) ==
    {id \in DOMAIN boundaries : boundaries[id][1] <= offset /\ offset < boundaries[id][2]}

\* C10: with the start offsets of the boundaries sorted ascending, the end
\* offset of a section is the start offset of the next one and that of the
\* last one is the length of the text; so start <= end, the slices of two
\* sections do not overlap, and they cover the text from the smallest start
\* offset to its end.
C10_EndOffsets ==
    pc = "done" =>
        /\ \E order \in AscendingOrders(ret) :
                \A i \in DOMAIN order :
                    ret[order[i]][2] = IF i < Len(order) THEN ret[order[i + 1]][1]
                                       ELSE Len(args)
        /\ \A id \in DOMAIN ret : ret[id][1] <= ret[id][2]
        /\ \A offset \in 0..(Len(args) - 1) :
                Cardinality(SlicesAt(ret, offset)) =
                    IF \E id \in DOMAIN ret : ret[id][1] <= offset THEN 1 ELSE 0

\* C10, its case: the boundaries of a text with three sections
C10_Witness ==
    /\ pc = "done"
    /\ Cardinality(DOMAIN ret) >= 3
    /\ \E id \in DOMAIN ret : ret[id][2] < Len(args)

(***************************************************************************)
(* normalize_anchor_text, applied to a text and to its own result          *)
(***************************************************************************)
\* pieces of a label: words in both cases, whitespace, punctuation
Pieces == <<"Item", "1A", " ", NBSP, ".", "\n", "_">>

MaxPieces == 3

\* the texts made of the pieces
RawTexts ==
    {JoinStrings("", pieces) : pieces \in UNION {[1..n -> Range(Pieces)] : n \in 0..MaxPieces}}

InitNormalize ==
    /\ pc = "normalize"
    /\ args \in RawTexts
    /\ locals = None /\ ret = None
    /\ NoRun

\* normalize_anchor_text(text): first of args, then of what it returned;
\* locals keeps the text it was given
NormalizeAnchorText ==
    /\ pc \in {"normalize", "again"}
    /\ locals' = (IF pc = "normalize" THEN args ELSE ret)
    /\ ret' = normalize_anchor_text(locals')
    /\ pc' = (IF pc = "normalize" THEN "again" ELSE "done")
    /\ UNCHANGED <<main_vars, args>>

SpecNormalize == InitNormalize /\ [][NormalizeAnchorText]_vars

\* C11: normalizing the result of a normalization returns it unchanged, and
\* the empty string normalizes to the empty string.
C11_Idempotent ==
    /\ pc = "done" => ret = locals
    /\ (pc = "again" /\ args = "") => ret = ""

\* C11, its case: a text the normalization changed, not to the empty string,
\* has been normalized twice
C11_Witness ==
    /\ pc = "done"
    /\ locals # args /\ locals # ""

(***************************************************************************)
(* find_section_content_advanced, on a start and a stop identifier         *)
(***************************************************************************)
\* the sections of the documents: a heading with an id, a named link with
\* the heading as its text, an empty named link before the heading, a named
\* link inside the paragraph of the heading
ContentLibrary == <<
    Entry("Item 1. Business", "i1", "h2", "Item 1. Business", "We make and sell widgets."),
    Entry("Item 1A. Risk Factors", "i1a", "at", "Item 1A. Risk Factors",
          "Our sales may decline."),
    Entry("Item 1B. Unresolved Staff Comments", "i1b", "a",
          "Item 1B. Unresolved Staff Comments", "None at this time."),
    Entry("Item 2. Properties", "i2", "pa", "Item 2. Properties", "We lease one plant."),
    Entry("Item 7. MD&A", "i7", "h2", "Item 7. Management's Discussion and Analysis",
          "Revenue grew this year.") >>

\* <a name="frag">heading</a>
NamedLink(e) == <<Tag("a", 0, None, e.frag, None), NavigableString(1, e.heading), Newline>>

ContentBlock(e) ==
    IF e.kind = "at" THEN Concat(<<NamedLink(e), Paragraph(e.para)>>) ELSE SectionBlock(e)

\* the document of the sections at the positions of S
ContentDocument(S) ==
    LET at == SelectSeq([i \in 1..Len(ContentLibrary) |-> i], LAMBDA i : i \in S) IN
    Concat([k \in 1..Len(at) |-> ContentBlock(ContentLibrary[at[k]])])

\* a document, the identifier of one of its sections and that of a later
\* one, or None
ContentInputs ==
    {[sections |-> S, target_id |-> ContentLibrary[i].frag,
      next_target_id |-> IF j = 0 THEN None ELSE ContentLibrary[j].frag] :
        <<S, i, j>> \in
            {x \in (SUBSET (DOMAIN ContentLibrary)) \X (DOMAIN ContentLibrary)
                    \X (0..Len(ContentLibrary)) :
                /\ Cardinality(x[1]) <= MaxEntries
                /\ x[2] \in x[1]
                /\ x[3] = 0 \/ (x[3] \in x[1] /\ x[3] > x[2])}}

InitContent ==
    /\ pc = "content"
    /\ args \in ContentInputs
    /\ soup = ContentDocument(args.sections)
    /\ toc_targets = <<>> /\ extracted = EmptyDict
    /\ xbrl_parser = None /\ result = <<>>
    /\ locals = <<>> /\ ret = None

\* collected_text after the first while loop of the structural walk
PrimaryWalk(doc, target_id, target_el, next_el) ==
    IF target_el = 0 \/ StartsWith(target_id, SyntheticPrefix) THEN <<>>
    ELSE SiblingWalk(doc, WalkStart(doc, target_el), next_el)

\* target_el, next_el and collected_text after the first loop
ContentLocals(doc, target_id, target_el, next_el) ==
    [target_el |-> target_el, next_el |-> next_el,
     collected_text |-> PrimaryWalk(doc, target_id, target_el, next_el)]

\* full_text = find_section_content_advanced(soup, div_id, next_boundary_id)
FindSectionContentAdvanced ==
    /\ pc = "content"
    /\ locals' = ContentLocals(soup, args.target_id, ResolveTarget(soup, args.target_id),
                               ResolveNext(soup, args.next_target_id))
    /\ ret' = find_section_content_advanced(soup, args.target_id, args.next_target_id)
    /\ pc' = "done"
    /\ UNCHANGED <<main_vars, args>>

SpecContent == InitContent /\ [][FindSectionContentAdvanced]_vars

\* the texts of the strings of the document from node n on
TextsFrom(doc, n) ==
    {Strip(doc[m].text) : m \in {k \in n..Len(doc) : doc[k].tag = TextTag}} \ {""}

\* C12: when the stop boundary resolves to a node after the start node, the
\* text returned has no text of the stop node and no text of a node that
\* follows it in the document, wherever the stop node is in the tree.
C12_StopsAtBoundary ==
    (pc = "done" /\ locals.target_el # 0 /\ locals.next_el > locals.target_el) =>
        \A text \in TextsFrom(soup, locals.next_el) : ~Contains(ret, text)

\* the siblings after the start node, up to the stop node when it is one of
\* them, in the order of the document
SiblingsAfter(doc, target_el, next_el) ==
    SelectSeq([n \in 1..Len(doc) |-> n],
              LAMBDA n : /\ n > target_el
                         /\ IsTag(doc, n) /\ doc[n].parent = doc[target_el].parent
                         /\ (next_el = 0 \/ doc[next_el].parent # doc[target_el].parent
                                \/ n < next_el))

RECURSIVE LongTexts(_, _)
\* the texts of the nodes that have more than 10 characters
LongTexts(doc, nodes) ==
    IF nodes = <<>> THEN <<>>
    ELSE (IF Len(get_text(doc, nodes[1])) > MinTextLen THEN <<get_text(doc, nodes[1])>>
          ELSE <<>>) \o LongTexts(doc, Tail(nodes))

\* C13: for every resolved start node the first walk begins at the sibling
\* after the start node, never with the start node, visits the following
\* siblings in order, collects the text of each one that has more than 10
\* characters, and ends at the stop node or with the last sibling.
C13_PrimaryWalk ==
    (pc = "done" /\ locals.target_el # 0) =>
        locals.collected_text
            = LongTexts(soup, SiblingsAfter(soup, locals.target_el, locals.next_el))

(***************************************************************************)
(* The walk find_section_content_advanced selects for the anchors of main  *)
(***************************************************************************)
\* sections whose heading has an id or a name of its own, one that begins
\* like the ids of the text search, and sections whose heading has none
RegimeLibrary == <<
    Entry("Item 1. Business", "section_1", "h2", "Item 1. Business",
          "We make and sell widgets."),
    Entry("Item 1A. Risk Factors", "i1a", "h2", "Item 1A. Risk Factors",
          "Our sales may decline."),
    Entry("Item 1B. Unresolved Staff Comments", "i1b", "p",
          "Item 1B. Unresolved Staff Comments", "None at this time."),
    Entry("Item 2. Properties", "i2", "h2", "Item 2. Properties", "We lease one plant."),
    Entry("Item 7. MD&A", "section_7", "a", "Item 7. Management's Discussion and Analysis",
          "Revenue grew this year."),
    Entry("Item 7A. Market Risk", "i7a", "p", "Item 7A. Market Risk",
          "Rates may change a lot.") >>

\* the document of the sections at the positions of S, with or without links
RegimeDocument(S, toc) ==
    LET at == SelectSeq([i \in 1..Len(RegimeLibrary) |-> i], LAMBDA i : i \in S) IN
    Document([k \in 1..Len(at) |-> RegimeLibrary[at[k]]], toc, FALSE)

RegimeDocuments ==
    {RegimeDocument(S, toc) :
        S \in {T \in SUBSET (DOMAIN RegimeLibrary) : Cardinality(T) <= MaxEntries},
        toc \in BOOLEAN}

\* args keeps the document as it was fetched
InitRegime ==
    /\ pc = "anchors"
    /\ soup \in RegimeDocuments
    /\ args = soup
    /\ toc_targets = <<>> /\ extracted = EmptyDict
    /\ xbrl_parser = None /\ result = <<>>
    /\ locals = <<>> /\ ret = None

\* if target_id.startswith("section_"): the text-based walk, else the structural one
RegimeOf(target_id) ==
    IF StartsWith(target_id, SyntheticPrefix) THEN "text_based" ELSE "structural"

\* the calls of find_section_content_advanced that reach the choice of the
\* walk: those for the targets whose target_el is found
RegimesUsed(doc, target_ids) ==
    LET called == SelectSeq(target_ids,
                    LAMBDA target : /\ target[1] \in TargetSet
                                    /\ ResolveTarget(doc, target[2]) # 0)
    IN  [i \in DOMAIN called |->
            [label |-> called[i][1], target_id |-> called[i][2],
             regime |-> RegimeOf(called[i][2])]]

\* extracted = extract_div_text_blocks(soup, toc_targets), with the walk
\* each call of find_section_content_advanced took kept in locals
ExtractDivTextBlocksWalks ==
    /\ pc = "blocks"
    /\ IF toc_targets # <<>>
       THEN SetBlocks(extract_div_text_blocks(soup, toc_targets))
       ELSE UNCHANGED <<extracted, soup>>
    /\ locals' = RegimesUsed(soup', toc_targets)
    /\ pc' = "done"
    /\ UNCHANGED <<toc_targets, xbrl_parser, result, args, ret>>

SpecRegime == InitRegime /\ [][ExtractTargetAnchors \/ ExtractDivTextBlocksWalks]_vars

\* the identifier was made by the text search: the fetched document has it
\* neither as an id or a name of a node nor as the fragment of a link
Synthesized(doc, target_id) ==
    \A n \in DOMAIN doc :
        /\ doc[n].id # target_id /\ doc[n].name # target_id
        /\ doc[n].href # "#" \o target_id

\* C14: the text-based walk is taken if and only if the start identifier was
\* synthesized by the text search; an identifier from the fragment of a link
\* or from an id or name the node already had is handled by the structural
\* walk, and a synthesized one by the text-based walk.
C14_RegimeSelection ==
    pc = "done" =>
        \A i \in DOMAIN locals :
            locals[i].regime = "text_based" <=> Synthesized(args, locals[i].target_id)

(***************************************************************************)
(* The two searches of a document: extract_target_anchors in main, then    *)
(* extract_all_section_anchors in extract_div_text_blocks                  *)
(***************************************************************************)
\* all_sections = extract_all_section_anchors(soup), when target_ids is not
\* empty; locals keeps the soup as it was before the call
MapSectionBoundaries ==
    /\ pc = "blocks"
    /\ locals' = soup
    /\ IF toc_targets # <<>>
       THEN SetCatalog(extract_all_section_anchors(soup))
       ELSE ret' = <<>> /\ soup' = soup
    /\ pc' = "done"
    /\ UNCHANGED <<toc_targets, extracted, xbrl_parser, result, args>>

SpecRescan == InitRegime /\ [][ExtractTargetAnchors \/ MapSectionBoundaries]_vars

\* C15: when the links give no anchors, the text search runs in
\* extract_target_anchors and again in extract_all_section_anchors on the
\* document the first run wrote its ids into; the second run returns the same
\* set of (key, reference) pairs, so the start reference of every target is
\* in the catalog under the same key, and it changes no attribute of a node.
C15_SecondSearchAgrees ==
    (pc = "done" /\ AnchorLoop(args) = <<>>) =>
        /\ Range(ret) = Range(toc_targets)
        /\ \A i \in DOMAIN toc_targets : \E j \in DOMAIN ret : ret[j] = toc_targets[i]
        /\ soup = locals

\* C15, its case: the links gave no anchors, the first search wrote ids into
\* the document and found two sections or more, and the second search is done
C15_Witness ==
    /\ pc = "done"
    /\ AnchorLoop(args) = <<>>
    /\ locals # args
    /\ Len(toc_targets) >= 2

====
